---- MODULE Spec2Model ----
(***************************************************************************)
(* Model of src/make_call.c: make_call_(fun, dots) builds the call         *)
(* `fun(name_1 = <promise_1>, ..., name_n = <promise_n>)` from a lazy_dots *)
(* list.  The routine is modelled statement by statement over a small node *)
(* heap with a protect stack, so that the host's garbage collector can run *)
(* at every allocating host call and reclaim whatever is unreachable.      *)
(***************************************************************************)
EXTENDS Integers, Sequences, FiniteSets, TLC

VARIABLES fun, dots, heap, brk, symtab, ppstack, pc, err,
          n, i, prom, args, result,
          entry, inspected, visited, nameReads, made, written

vars == <<fun, dots, heap, brk, symtab, ppstack, pc, err,
          n, i, prom, args, result,
          entry, inspected, visited, nameReads, made, written>>

-----------------------------------------------------------------------------
(* Bounds *)
MaxDots == 2
MaxEntryDepth == 1

(* Input domains *)
FunTypes == {"SYMSXP", "LANGSXP", "CLOSXP"}
DotsTypes == {"VECSXP", "STRSXP", "NILSXP"}
NameSeq == <<"a", "b">>
Names == {NameSeq[k] : k \in 1..Len(NameSeq)}

(* Pointers.  Positive integers are node addresses of the heap; the two    *)
(* arguments of the routine and whatever the caller protected live outside *)
(* it and are never reclaimed while the routine runs.                      *)
R_NilValue == 0
FUN == -1
CALLER == -2
HeapSize == Len(NameSeq) + 3 * MaxDots + 1
Addr == 1..HeapSize

FreeNode ==
  [kind |-> "FREE", car |-> R_NilValue, cdr |-> R_NilValue, tag |-> R_NilValue,
   expr |-> "", env |-> "", pname |-> ""]

-----------------------------------------------------------------------------
(* Host constructors and accessors, as the routine uses them *)

TYPEOF(x) == x.type

inherits(x, what) == what = "lazy_dots" /\ x.class

length(x) == Len(x.elts)

VECTOR_ELT(x, k) == x[k + 1]

GET_NAMES(x) == IF x.hasNames THEN x.names ELSE <<>>

STRING_ELT(x, k) == x[k + 1]

Rf_mkPROMISE(expr, env) ==
  [FreeNode EXCEPT !.kind = "PROMSXP", !.expr = expr, !.env = env]

lazy_to_promise(x) == Rf_mkPROMISE(VECTOR_ELT(x, 0), VECTOR_ELT(x, 1))

CONS(car, cdr) ==
  [FreeNode EXCEPT !.kind = "LISTSXP", !.car = car, !.cdr = cdr]

LCONS(car, cdr) ==
  [FreeNode EXCEPT !.kind = "LANGSXP", !.car = car, !.cdr = cdr]

mkSYM(name) == [FreeNode EXCEPT !.kind = "SYMSXP", !.pname = name]

(* SET_TAG stores into the third word of whatever node the pointer names *)
SET_TAG(h, x, v) == IF x \in Addr THEN [h EXCEPT ![x].tag = v] ELSE h

PROTECT(stack, x) == Append(stack, x)

UNPROTECT(stack, k) == SubSeq(stack, 1, Len(stack) - k)

-----------------------------------------------------------------------------
(* The collector *)

Fields(h, a) == {h[a].car, h[a].cdr, h[a].tag} \cap Addr

RECURSIVE Reach(_, _)
Reach(h, S) ==
  LET T == S \cup UNION {Fields(h, a) : a \in S}
  IN IF T = S THEN S ELSE Reach(h, T)

StackRoots(stack) == {stack[k] : k \in 1..Len(stack)} \cap Addr

SymRoots == {symtab[s] : s \in Names} \cap Addr

(* What a collection keeps: the protect stack, the symbol table and the   *)
(* arguments of the allocating call in progress.                           *)
Live(h, stack, opargs) ==
  Reach(h, StackRoots(stack) \cup SymRoots \cup (opargs \cap Addr))

Collect(h, stack, opargs) ==
  [a \in Addr |-> IF a \in Live(h, stack, opargs) THEN h[a] ELSE FreeNode]

AfterGC(gc, stack, opargs) ==
  IF gc THEN Collect(heap, stack, opargs) ELSE heap

(* A new node takes a reclaimed slot or the next slot never used *)
FreeSlots(h) ==
  {a \in 1..brk : h[a].kind = "FREE"} \cup ({brk + 1} \cap Addr)

Bump(a) == IF a > brk THEN a ELSE brk

-----------------------------------------------------------------------------
(* Initial states: every argument pair the caller can pass *)

(* An element of dots is a list of length 2: an expression, then the       *)
(* environment it was written in (line 9).                                 *)
Pairs == {<<"x", "e1">>, <<"y", "e2">>}

SeqsOf(S, len) == [1..len -> S]

ListDots ==
  { [type |-> "VECSXP", class |-> c, elts |-> el, hasNames |-> hn,
     names |-> nm] :
      c \in BOOLEAN, hn \in BOOLEAN,
      el \in UNION {SeqsOf(Pairs, len) : len \in 0..MaxDots},
      nm \in UNION {SeqsOf(Names, len) : len \in 0..MaxDots} }

DotsInputs ==
  { d \in ListDots :
      /\ d.hasNames => Len(d.names) = Len(d.elts) /\ Len(d.elts) > 0
      /\ ~d.hasNames => d.names = <<>> }
  \cup
  { [type |-> t, class |-> c, elts |-> <<>>, hasNames |-> FALSE,
     names |-> <<>>] :
      t \in DotsTypes \ {"VECSXP"}, c \in BOOLEAN }

Rank(S, s) == Cardinality({k \in 1..Len(NameSeq) :
                              NameSeq[k] \in S /\ k <= CHOOSE j \in 1..Len(NameSeq) : NameSeq[j] = s})

EntrySymtab(S) == [s \in Names |-> IF s \in S THEN Rank(S, s) ELSE R_NilValue]

EntryHeap(S) ==
  [a \in Addr |->
     IF \E s \in S : Rank(S, s) = a
       THEN mkSYM(CHOOSE s \in S : Rank(S, s) = a)
       ELSE FreeNode]

Init ==
  /\ fun \in [type : FunTypes]
  /\ dots \in DotsInputs
  /\ \E S \in SUBSET Names :
       /\ symtab = EntrySymtab(S)
       /\ heap = EntryHeap(S)
       /\ brk = Cardinality(S)
  /\ \E d \in 0..MaxEntryDepth : ppstack = [k \in 1..d |-> CALLER]
  /\ pc = "chk_fun"
  /\ err = ""
  /\ n = 0
  /\ i = 0
  /\ prom = R_NilValue
  /\ args = R_NilValue
  /\ result = R_NilValue
  /\ entry = [fun |-> fun, dots |-> dots, heap |-> heap, ppstack |-> ppstack,
              symtab |-> symtab]
  /\ inspected = <<>>
  /\ visited = <<>>
  /\ nameReads = <<>>
  /\ made = [prom |-> 0, cell |-> 0, call |-> 0]
  /\ written = <<>>

-----------------------------------------------------------------------------
(* make_call_, one statement group per action *)

locals == <<n, i, prom, args, result>>

error(msg) ==
  /\ pc' = "error"
  /\ err' = msg
  /\ UNCHANGED <<heap, brk, symtab, ppstack, made>>

FunTypeOK_SymbolOnly == TYPEOF(fun) = "SYMSXP"

FunTypeOK == TYPEOF(fun) = "SYMSXP" \/ TYPEOF(fun) = "LANGSXP"

CheckFun ==
  /\ pc = "chk_fun"
  /\ inspected' = Append(inspected, "TYPEOF(fun)")
  /\ IF ~FunTypeOK
       THEN error("fun must be a call or a symbol")
       ELSE /\ pc' = "chk_dots"
            /\ UNCHANGED <<err, heap, brk, symtab, ppstack, made>>
  /\ UNCHANGED <<fun, dots, entry, locals, visited, nameReads, written>>

CheckDots_ClassFirst ==
  /\ pc = "chk_dots"
  /\ inspected' = inspected \o <<"inherits(dots)", "TYPEOF(dots)">>
  /\ IF ~inherits(dots, "lazy_dots")
       THEN error("dots must be of class lazy_dots")
       ELSE IF TYPEOF(dots) # "VECSXP"
         THEN error("dots must be a list")
         ELSE /\ pc' = "length"
              /\ UNCHANGED <<err, heap, brk, symtab, ppstack, made>>
  /\ UNCHANGED <<fun, dots, entry, locals, visited, nameReads, written>>

CheckDots ==
  /\ pc = "chk_dots"
  /\ inspected' = Append(inspected, "TYPEOF(dots)")
  /\ IF TYPEOF(dots) # "VECSXP"
       THEN error("dots must be a list")
       ELSE /\ pc' = "chk_class"
            /\ UNCHANGED <<err, heap, brk, symtab, ppstack, made>>
  /\ UNCHANGED <<fun, dots, entry, locals, visited, nameReads, written>>

CheckClass_Protected ==
  /\ pc = "chk_class"
  /\ inspected' = Append(inspected, "inherits(dots)")
  /\ ppstack' = PROTECT(ppstack, CALLER)
  /\ IF ~inherits(dots, "lazy_dots")
       THEN /\ pc' = "error"
            /\ err' = "dots must be of class lazy_dots"
       ELSE /\ pc' = "length"
            /\ UNCHANGED err
  /\ UNCHANGED <<fun, dots, heap, brk, symtab, made, entry, locals, visited,
                 nameReads, written>>

CheckClass ==
  /\ pc = "chk_class"
  /\ inspected' = Append(inspected, "inherits(dots)")
  /\ IF ~inherits(dots, "lazy_dots")
       THEN error("dots must be of class lazy_dots")
       ELSE /\ pc' = "length"
            /\ UNCHANGED <<err, heap, brk, symtab, ppstack, made>>
  /\ UNCHANGED <<fun, dots, entry, locals, visited, nameReads, written>>

(* lines 24-27 and the loop header of line 32 *)
Length ==
  /\ pc = "length"
  /\ n' = length(dots)
  /\ IF n' = 0
       THEN \E gc \in BOOLEAN :
              LET h1 == AfterGC(gc, ppstack, {FUN, R_NilValue})
              IN \E a \in FreeSlots(h1) :
                   /\ heap' = [h1 EXCEPT ![a] = LCONS(FUN, R_NilValue)]
                   /\ brk' = Bump(a)
                   /\ result' = a
                   /\ made' = [made EXCEPT !.call = @ + 1]
                   /\ pc' = "done"
                   /\ UNCHANGED <<i, args>>
       ELSE /\ args' = R_NilValue
            /\ i' = n' - 1
            /\ pc' = "mkprom"
            /\ UNCHANGED <<heap, brk, result, made>>
  /\ UNCHANGED <<fun, dots, symtab, ppstack, err, prom, entry, inspected,
                 visited, nameReads, written>>

(* lines 33-34: dot = VECTOR_ELT(dots, i); prom = PROTECT(lazy_to_promise(dot)) *)
MkPromise ==
  /\ pc = "mkprom"
  /\ visited' = Append(visited, i)
  /\ \E gc \in BOOLEAN :
       LET h1 == AfterGC(gc, ppstack, {})
           dot == VECTOR_ELT(dots.elts, i)
       IN \E a \in FreeSlots(h1) :
            /\ heap' = [h1 EXCEPT ![a] = lazy_to_promise(dot)]
            /\ brk' = Bump(a)
            /\ prom' = a
            /\ ppstack' = PROTECT(ppstack, a)
  /\ made' = [made EXCEPT !.prom = @ + 1]
  /\ pc' = "cons"
  /\ UNCHANGED <<fun, dots, symtab, err, n, i, args, result, entry, inspected,
                 nameReads, written>>

(* lines 35-36: args = PROTECT(CONS(prom, args)); UNPROTECT(1) *)
ProtectArgs_NoPop(stack, a) == PROTECT(stack, a)

ProtectArgs(stack, a) == UNPROTECT(PROTECT(stack, a), 1)

Cons ==
  /\ pc = "cons"
  /\ \E gc \in BOOLEAN :
       LET h1 == AfterGC(gc, ppstack, {prom, args})
       IN \E a \in FreeSlots(h1) :
            /\ heap' = [h1 EXCEPT ![a] = CONS(prom, args)]
            /\ brk' = Bump(a)
            /\ args' = a
            /\ ppstack' = ProtectArgs(ppstack, a)
  /\ made' = [made EXCEPT !.cell = @ + 1]
  /\ pc' = "install"
  /\ UNCHANGED <<fun, dots, symtab, err, n, i, prom, result, entry, inspected,
                 visited, nameReads, written>>

(* line 37: SET_TAG(args, Rf_install(name)).  Rf_install returns the       *)
(* interned symbol, allocating it when the name is new; args is on no      *)
(* root while it runs.                                                     *)
InstallTag(name) ==
  IF symtab[name] # R_NilValue
    THEN /\ heap' = SET_TAG(heap, args, symtab[name])
         /\ written' = Append(written, heap[args].kind)
         /\ UNCHANGED <<brk, symtab>>
    ELSE \E gc \in BOOLEAN :
           LET h1 == AfterGC(gc, ppstack, {})
           IN \E a \in FreeSlots(h1) :
                LET h2 == [h1 EXCEPT ![a] = mkSYM(name)]
                IN /\ heap' = SET_TAG(h2, args, a)
                   /\ written' = Append(written, h2[args].kind)
                   /\ brk' = Bump(a)
                   /\ symtab' = [symtab EXCEPT ![name] = a]

(* line 32, --i and the loop test *)
LoopStep ==
  /\ i' = i - 1
  /\ pc' = IF i - 1 >= 0 THEN "mkprom" ELSE "final"

(* line 37 when dots has a names vector *)
Install ==
  /\ pc = "install"
  /\ dots.hasNames
  /\ nameReads' = Append(nameReads, i)
  /\ InstallTag(STRING_ELT(GET_NAMES(dots), i))
  /\ LoopStep
  /\ UNCHANGED <<fun, dots, ppstack, err, n, prom, args, result, entry,
                 inspected, visited, made>>

(* line 37 when GET_NAMES gave R_NilValue: STRING_ELT reads an element of  *)
(* a vector that is not there.  A build whose STRING_ELT checks its        *)
(* argument raises an error; the USE_RINTERNALS macro reads past the nil   *)
(* node and CHAR of that word either faults or yields some string.         *)
InstallNoNames ==
  /\ pc = "install"
  /\ ~dots.hasNames
  /\ nameReads' = Append(nameReads, i)
  /\ \/ /\ pc' = "error"
        /\ err' = "STRING_ELT() can only be applied to a 'character vector', not a 'NULL'"
        /\ UNCHANGED <<heap, brk, symtab, i, written>>
     \/ /\ pc' = "crash"
        /\ UNCHANGED <<heap, brk, symtab, i, written, err>>
     \/ /\ \E junk \in Names : InstallTag(junk)
        /\ LoopStep
        /\ UNCHANGED err
  /\ UNCHANGED <<fun, dots, ppstack, n, prom, args, result, entry,
                 inspected, visited, made>>

(* lines 39-41: UNPROTECT(n); return LCONS(fun, args) *)
Return ==
  /\ pc = "final"
  /\ ppstack' = UNPROTECT(ppstack, n)
  /\ \E gc \in BOOLEAN :
       LET h1 == AfterGC(gc, UNPROTECT(ppstack, n), {FUN, args})
       IN \E a \in FreeSlots(h1) :
            /\ heap' = [h1 EXCEPT ![a] = LCONS(FUN, args)]
            /\ brk' = Bump(a)
            /\ result' = a
  /\ made' = [made EXCEPT !.call = @ + 1]
  /\ pc' = "done"
  /\ UNCHANGED <<fun, dots, symtab, err, n, i, prom, args, entry, inspected,
                 visited, nameReads, written>>

Next ==
  \/ CheckFun
  \/ CheckDots
  \/ CheckClass
  \/ Length
  \/ MkPromise
  \/ Cons
  \/ Install
  \/ InstallNoNames
  \/ Return

Spec == Init /\ [][Next]_vars

-----------------------------------------------------------------------------
(* Vocabulary of the properties *)

SymbolOrCall == fun.type \in {"SYMSXP", "LANGSXP"}
IsList == dots.type = "VECSXP"
HasClass == dots.class
Valid == SymbolOrCall /\ IsList /\ HasClass
Named == dots.hasNames
Terminal == pc \in {"done", "error", "crash"}
InBody == pc \in {"length", "mkprom", "cons", "install", "final", "done"}

FunMsg == "fun must be a call or a symbol"
ListMsg == "dots must be a list"
ClassMsg == "dots must be of class lazy_dots"
ValidationError == pc = "error" /\ err \in {FunMsg, ListMsg, ClassMsg}

(* The cells met from pointer a along the cdr words, at most fuel of them *)
RECURSIVE Cells(_, _, _)
Cells(h, a, fuel) ==
  IF a \notin Addr \/ fuel = 0
    THEN <<>>
    ELSE <<a>> \o Cells(h, h[a].cdr, fuel - 1)

ArgCells == IF result \in Addr THEN Cells(heap, heap[result].cdr, MaxDots + 1)
            ELSE <<>>

IsCall ==
  /\ result \in Addr
  /\ heap[result].kind = "LANGSXP"
  /\ heap[result].car = FUN

SlotsInOrder ==
  /\ Len(ArgCells) = Len(dots.elts)
  /\ \A k \in 1..Len(ArgCells) :
       LET c == heap[ArgCells[k]]
       IN /\ c.kind = "LISTSXP"
          /\ c.car \in Addr
          /\ heap[c.car].kind = "PROMSXP"
          /\ heap[c.car].expr = dots.elts[k][1]
          /\ heap[c.car].env = dots.elts[k][2]
          /\ (k = Len(ArgCells)) => c.cdr = R_NilValue

TagsInOrder ==
  /\ Len(ArgCells) = Len(dots.elts)
  /\ \A k \in 1..Len(ArgCells) :
       LET c == heap[ArgCells[k]]
       IN /\ c.kind = "LISTSXP"
          /\ c.tag \in Addr
          /\ c.tag = symtab[dots.names[k]]
          /\ heap[c.tag].kind = "SYMSXP"
          /\ heap[c.tag].pname = dots.names[k]

Descending(len) == [k \in 1..len |-> len - k]

-----------------------------------------------------------------------------
(* C1: for a symbol or call fun and a lazy_dots list of n >= 0 named       *)
(* pairs, make_call_ returns a call whose head is fun and whose i-th of    *)
(* exactly n argument slots holds a promise of the i-th pair's expression  *)
(* and environment.                                                        *)
C1_CallOfPromises ==
  (Valid /\ (Named \/ Len(dots.elts) = 0) /\ Terminal)
    => (pc = "done" /\ IsCall /\ SlotsInOrder)

(* C2: for every valid named input with n >= 1, the tag of the i-th slot   *)
(* of the returned call is the symbol of the i-th name of dots.            *)
C2_NamesPreserved ==
  (pc = "done" /\ Named /\ n >= 1) => (IsCall /\ TagsInOrder)

(* C3: a lazy_dots list of n >= 1 elements without a names attribute is    *)
(* accepted, the call is returned with its n promises in order, and no     *)
(* entry of the absent names vector is ever read.                          *)
C3_NamesOptional ==
  (Valid /\ ~Named /\ Len(dots.elts) >= 1)
    => /\ nameReads = <<>>
       /\ Terminal => (pc = "done" /\ IsCall /\ SlotsInOrder)

(* C4: a call is returned only for a symbol or call fun and a list dots of *)
(* class lazy_dots; any other input ends in a validation error, and each   *)
(* of the three messages is raised only for its own violated condition.    *)
C4_ValidationContract ==
  /\ InBody => Valid
  /\ (~Valid /\ Terminal) => ValidationError
  /\ (pc = "error" /\ err = FunMsg) => ~SymbolOrCall
  /\ (pc = "error" /\ err = ListMsg) => ~IsList
  /\ (pc = "error" /\ err = ClassMsg) => (IsList /\ ~HasClass)

C4_Witness == pc = "error" /\ err = ClassMsg /\ SymbolOrCall /\ IsList

(* C5: at a validation error no promise, cell or call has been created and *)
(* nothing was pushed on the protect stack: heap, symbol table and protect *)
(* stack are as at entry.                                                  *)
C5_AbortBeforeEffects ==
  ValidationError
    => /\ made = [prom |-> 0, cell |-> 0, call |-> 0]
       /\ heap = entry.heap
       /\ symtab = entry.symtab
       /\ ppstack = entry.ppstack
       /\ visited = <<>>
       /\ written = <<>>

C5_Witness ==
  ValidationError /\ err = ClassMsg /\ Len(ppstack) > 0 /\ Len(dots.elts) > 0

(* C6: at every allocating host call, every object built so far that is    *)
(* used afterwards is reachable from the protect stack or from an argument *)
(* of that call.                                                           *)
AllocPoint ==
  \/ pc \in {"mkprom", "cons", "final"}
  \/ pc = "install" /\ Named /\ symtab[STRING_ELT(GET_NAMES(dots), i)] = R_NilValue

OpStack == IF pc = "final" THEN UNPROTECT(ppstack, n) ELSE ppstack

OpArgs ==
  CASE pc = "cons" -> {prom, args}
    [] pc = "final" -> {args}
    [] OTHER -> {}

InUse ==
  Reach(heap, {args} \cap Addr) \cup (IF pc = "cons" THEN {prom} ELSE {})

C6_ReachableAtAllocation ==
  AllocPoint => InUse \subseteq Live(heap, OpStack, OpArgs)

(* C7: the protect stack is balanced: on return it is what it was at       *)
(* entry, inside the loop it is never shorter than at entry, after k       *)
(* completed iterations it is exactly k deeper, and the final UNPROTECT(n) *)
(* finds n entries of the loop.                                            *)
C7_StackBalanced ==
  /\ pc = "done" => ppstack = entry.ppstack
  /\ pc \in {"mkprom", "cons", "install", "final"}
       => /\ Len(ppstack) >= Len(entry.ppstack)
          /\ SubSeq(ppstack, 1, Len(entry.ppstack)) = entry.ppstack
  /\ pc = "mkprom" => Len(ppstack) = Len(entry.ppstack) + (n - 1 - i)
  /\ pc = "final" => Len(ppstack) = Len(entry.ppstack) + n

C7_Witness == pc = "done" /\ n >= 2 /\ Len(ppstack) > 0 /\ ppstack = entry.ppstack

(* C8: the checks run in the order fun type, dots type, dots class: the    *)
(* error raised is that of the first violated check, and the class of dots *)
(* is never inspected when dots is not a list.                             *)
C8_CheckOrder ==
  /\ (pc = "error" /\ ~SymbolOrCall)
       => (err = FunMsg /\ inspected = <<"TYPEOF(fun)">>)
  /\ (pc = "error" /\ SymbolOrCall /\ ~IsList)
       => (err = ListMsg /\ inspected = <<"TYPEOF(fun)", "TYPEOF(dots)">>)
  /\ (pc = "error" /\ SymbolOrCall /\ IsList /\ ~HasClass)
       => (err = ClassMsg
           /\ inspected = <<"TYPEOF(fun)", "TYPEOF(dots)", "inherits(dots)">>)
  /\ ~IsList => \A k \in 1..Len(inspected) : inspected[k] # "inherits(dots)"

C8_Witness ==
  pc = "error" /\ SymbolOrCall /\ ~IsList /\ ~HasClass /\ err = ListMsg

(* C9: for a valid input of length n the loop visits the indices n-1 down  *)
(* to 0 once each, creates exactly n promises and n argument cells, and    *)
(* ends after n iterations with the final call.                            *)
C9_OnePass ==
  (Valid /\ Terminal)
    => /\ pc = "done"
       /\ visited = Descending(Len(dots.elts))
       /\ made = [prom |-> Len(dots.elts), cell |-> Len(dots.elts), call |-> 1]

(* C10: fun, dots, the elements and the names of dots are as at entry      *)
(* after any call, and SET_TAG is applied only to cells the routine itself *)
(* created.                                                                *)
C10_InputsUntouched ==
  /\ fun = entry.fun
  /\ dots = entry.dots
  /\ \A k \in 1..Len(written) : written[k] = "LISTSXP"

====
